---- MODULE Spec2Model ----
(***************************************************************************)
(* StakeholderGPT (src/main.py): the `grill` command as a state machine.   *)
(*                                                                         *)
(* One run of `grill` reads a pitch, rejects it when it is blank, builds   *)
(* three stakeholder agents and their three question tasks, lets the crew  *)
(* execute the tasks one after the other, prints the three answers,        *)
(* composes them into one text, runs a fourth (evaluation) task on that    *)
(* text and prints the assessment.                                         *)
(*                                                                         *)
(* Texts the program looks into (the pitch: truthiness, strip) are         *)
(* sequences of characters, each character its Unicode code point.  Texts  *)
(* it only passes along (the fixed parts of the prompts, what the language *)
(* model returns) are strings.  A formatted text (an f-string) is the      *)
(* sequence of its parts.                                                  *)
(* The language model behind Crew.kickoff() is the environment: each call  *)
(* returns some text or raises.  The program's other command, `example`,   *)
(* prints a sample pitch and returns.                                      *)
(***************************************************************************)
EXTENDS Integers, Sequences, FiniteSets, TLC

VARIABLES
    STAKEHOLDER_MODEL, \* the environment variable of that name, as the process sees it
    command,       \* the command the process was started with: "grill" or "example"
    pc,            \* where the run of grill() stands
    source,        \* which branch of lines 153-161 supplied pitch_text
    pitch_text,    \* local pitch_text of grill()
    agents,        \* (ceo, cto, designer) once create_stakeholders() has run
    tasks,         \* local tasks of grill(): the three question tasks
    next_task,     \* index (1..3) of the task crew.kickoff() executes next
    all_questions, \* local all_questions of grill()
    eval_task,     \* local eval_task of grill()
    display,       \* what console.print has shown so far, in order
    outcome,       \* how the run ended: "running", "returned", "Exit(1)", "raised"
    calls,         \* the generation calls made so far in this run, in order
    trace,         \* the orchestrator states this run has been in, in order
    memo,          \* the answers the generation capability has given so far
    history        \* the finished earlier runs (re-invocations of grill)

vars == << STAKEHOLDER_MODEL, command, pc, source, pitch_text, agents, tasks, next_task, all_questions,
           eval_task, display, outcome, calls, trace, memo, history >>

runVars == << pc, source, pitch_text, agents, tasks, next_task, all_questions,
              eval_task, display, outcome, calls, trace >>

----------------------------------------------------------------------------
(* Bounds and input alphabets *)

\* Longest pitch text drawn as an input.
MaxPitchLen == 2

\* Number of invocations of grill in a behaviour that re-invokes it.
MaxRuns == 2

\* Characters of the pitch texts: space, line feed, vertical tab, "a".
Chars == {32, 10, 11, 97}

\* Texts the generation capability may return.
Outputs == {"x", "y"}

\* A generation call that raises instead of returning.
GenerationFailure == "<raise>"

\* Python's None (an option that was not given, a task without output).
None == << -1 >>
NoOutput == "<None>"

TextsUpTo(n) == UNION { [1..k -> Chars] : k \in 0..n }

Texts == TextsUpTo(MaxPitchLen)

\* The pitch texts of the behaviours that invoke grill more than once.
RerunTexts == { << 32, 97 >>, << 11 >> }

\* Paths a caller may give with --file ("" is the empty option value).
Paths == { None, <<>>, << 102 >> }

\* The environment variable STAKEHOLDER_MODEL: not set, set to a model
\* name, set to the empty string.
Unset == "<unset>"
Environ == { Unset, "gpt-4o", "" }

\* The environments and the --file options of the behaviours that invoke
\* grill more than once.
RerunEnviron == { Unset, "gpt-4o" }

\* Lines 145 and 226: the commands app() dispatches to.
Commands == { "grill", "example" }
RerunPaths == { None, <<>> }

----------------------------------------------------------------------------
(* Python built-ins the code relies on *)

\* The code points str.strip() removes: those str.isspace() is true of.
Whitespace ==
    { 9, 10, 11, 12, 13, 28, 29, 30, 31, 32, 133, 160, 5760,
      8192, 8193, 8194, 8195, 8196, 8197, 8198, 8199, 8200, 8201, 8202,
      8232, 8233, 8239, 8287, 12288 }

RECURSIVE lstrip(_)
lstrip(s) ==
    IF s = <<>> THEN <<>>
    ELSE IF Head(s) \in Whitespace THEN lstrip(Tail(s)) ELSE s

RECURSIVE rstrip(_)
rstrip(s) ==
    IF s = <<>> THEN <<>>
    ELSE IF s[Len(s)] \in Whitespace THEN rstrip(SubSeq(s, 1, Len(s) - 1)) ELSE s

\* Variant: the check of line 163 without strip() (`if not pitch_text:`).
strip_missing(s) == s

\* str.strip(): leading and trailing whitespace removed.
strip(s) == rstrip(lstrip(s))

\* Truth value of an option: None and the empty string are false.
Truthy(x) == x # None /\ x # <<>>

----------------------------------------------------------------------------
(* The persona registry and the task builders *)

\* os.getenv(name, default) on the value the process sees.
getenv(value, default) == IF value = Unset THEN default ELSE value

\* Lines 18-20: read once, when the process loads the module; the
\* environment of a process does not change while it runs.
LLM_CONFIG == [model |-> getenv(STAKEHOLDER_MODEL, "ollama/llama3.1:8b")]

create_stakeholders ==
    << [role |-> "CEO",
        goal |-> "Evaluate roadmap proposals from a business and strategic perspective",
        backstory |-> "seasoned CEO: ROI, market timing, resource allocation, strategic focus",
        llm |-> LLM_CONFIG.model],
       [role |-> "CTO",
        goal |-> "Evaluate roadmap proposals from a technical feasibility and architecture perspective",
        backstory |-> "experienced CTO: technical debt, scalability, integration complexity, team capacity",
        llm |-> LLM_CONFIG.model],
       [role |-> "Head of Design",
        goal |-> "Evaluate roadmap proposals from a user experience and validation perspective",
        backstory |-> "user-obsessed design leader: user problems, validation, usability, design coherence",
        llm |-> LLM_CONFIG.model] >>

Task(description, expected_output, agent) ==
    [description |-> description, expected_output |-> expected_output,
     agent |-> agent, output |-> NoOutput]

\* eval_task before line 213 binds it.
NoTask == Task(<<>>, "", [role |-> "", goal |-> "", backstory |-> "", llm |-> ""])

\* Variant: the prompts carry the number of sessions held so far, a count
\* kept across invocations.
create_grilling_tasks_numbered(pitch, ceo, cto, designer) ==
    << Task(<< "Review this roadmap pitch and ask 2-3 tough business questions:\n\nPITCH:\n",
               pitch, << "session", Len(history) >> >>,
            "2-3 tough business-focused questions about the roadmap pitch", ceo),
       Task(<< "Review this roadmap pitch and ask 2-3 tough technical questions:\n\nPITCH:\n",
               pitch, << "session", Len(history) >> >>,
            "2-3 tough technical questions about the roadmap pitch", cto),
       Task(<< "Review this roadmap pitch and ask 2-3 tough user experience questions:\n\nPITCH:\n",
               pitch, << "session", Len(history) >> >>,
            "2-3 tough user experience questions about the roadmap pitch", designer) >>

create_grilling_tasks(pitch, ceo, cto, designer) ==
    << Task(<< "Review this roadmap pitch and ask 2-3 tough business questions:\n\nPITCH:\n",
               pitch,
               "\n\nAsk questions a CEO would ask: ...\n\nBe direct but constructive. Challenge assumptions." >>,
            "2-3 tough business-focused questions about the roadmap pitch",
            ceo),
       Task(<< "Review this roadmap pitch and ask 2-3 tough technical questions:\n\nPITCH:\n",
               pitch,
               "\n\nAsk questions a CTO would ask: ...\n\nBe thorough but fair. Identify real technical risks." >>,
            "2-3 tough technical questions about the roadmap pitch",
            cto),
       Task(<< "Review this roadmap pitch and ask 2-3 tough user experience questions:\n\nPITCH:\n",
               pitch,
               "\n\nAsk questions a Head of Design would ask: ...\n\nBe user-focused but practical. Advocate for the customer." >>,
            "2-3 tough user experience questions about the roadmap pitch",
            designer) >>

create_evaluation_task(pitch, questions, ceo) ==
    Task(<< "Based on the stakeholder questions raised about this pitch, provide a readiness assessment:\n\nORIGINAL PITCH:\n",
            pitch,
            "\n\nSTAKEHOLDER QUESTIONS:\n",
            questions,
            "\n\nProvide:\n1. **Readiness Score** ... 4. **Suggested Improvements**: 3 specific things to add or clarify\n\nBe honest and helpful." >>,
         "A readiness assessment with score, strengths, gaps, and improvement suggestions",
         ceo)

\* What lines 202-208 raise on a task list shorter than three (tasks[i]).
IndexError == << "IndexError: list index out of range" >>

\* Variant: the CEO's and the CTO's texts change places.
AllQuestions_swapped(ts) ==
    IF Len(ts) < 3 THEN IndexError
    ELSE << "\n", "CEO", ": ", ts[2].output, "\n", "\n",
            "CTO", ": ", ts[1].output, "\n", "\n",
            "Designer", ": ", ts[3].output, "\n" >>

\* Lines 202-208: the f-string that combines the three outputs, as the
\* sequence of its parts.  It reads tasks[0], tasks[1], tasks[2].
AllQuestions(ts) ==
    IF Len(ts) < 3 THEN IndexError
    ELSE << "\n", "CEO", ": ", ts[1].output, "\n", "\n",
            "CTO", ": ", ts[2].output, "\n", "\n",
            "Designer", ": ", ts[3].output, "\n" >>

\* What the generation capability is asked when a crew executes a task:
\* the model the task's agent names, and the task's prompt.
Request(t) ==
    [llm |-> t.agent.llm, agent |-> t.agent.role, description |-> t.description,
     expected_output |-> t.expected_output]

\* The capability answers request req with r; a request it has answered
\* before gets the same answer again (a deterministic capability).
Answer(req, r) ==
    /\ r \in Outputs \cup {GenerationFailure}
    /\ req \in DOMAIN memo => r = memo[req]
    /\ memo' = IF req \in DOMAIN memo THEN memo ELSE memo @@ (req :> r)

----------------------------------------------------------------------------
(* The orchestrator's states, read off the position of the run *)

OrchState ==
    CASE pc \in {"start", "reading", "check", "exited", "raised_input", "example_done"} -> "Idle"
      [] pc = "kickoff"                                       -> "GeneratingQuestions"
      [] pc = "aggregating"                                   -> "Aggregating"
      [] pc = "evaluating"                                    -> "Evaluating"
      [] pc = "done"                                          -> "Done"
      [] pc \in {"raised_questions", "raised_evaluation"}     -> "Failed"

Terminal ==
    {"exited", "raised_input", "raised_questions", "raised_evaluation", "done",
     "example_done"}

\* console.print of a line, a panel, a rendered text.
Line(text)           == [kind |-> "print", title |-> "", body |-> text]
Panel(title)         == [kind |-> "panel", title |-> title, body |-> ""]
Markdown(text)       == [kind |-> "markdown", title |-> "", body |-> text]
TitledPanel(title, text) == [kind |-> "panel", title |-> title, body |-> text]

\* The run's record of the orchestrator states it has entered follows pc.
Entered ==
    trace' = IF OrchState' = trace[Len(trace)] THEN trace ELSE Append(trace, OrchState')

----------------------------------------------------------------------------
(* One invocation of grill *)

RunInit ==
    /\ pc = "start"
    /\ source = "none"
    /\ pitch_text = None
    /\ agents = <<>>
    /\ tasks = <<>>
    /\ next_task = 1
    /\ all_questions = <<>>
    /\ eval_task = NoTask
    /\ display = <<>>
    /\ outcome = "running"
    /\ calls = <<>>
    /\ trace = << "Idle" >>

Init ==
    /\ STAKEHOLDER_MODEL \in Environ
    /\ command \in Commands
    /\ RunInit
    /\ memo = << >>
    /\ history = << >>

\* Lines 230-253: the sample pitch of the example command.
example_pitch ==
    "\n# Q2 Roadmap: AI-Powered Search\n\n## Problem\nUsers spend 3+ minutes finding products. Search abandonment is 40%.\n\n## Solution\nImplement semantic search with AI recommendations.\n\n## Timeline\n- Month 1: Vector database integration\n- Month 2: ML model training on user behavior  \n- Month 3: A/B test and rollout\n\n## Resources\n- 2 backend engineers\n- 1 ML engineer\n- $15k/month infra costs\n\n## Expected Impact\n- 50% reduction in search time\n- 20% increase in conversion\n- $2M additional revenue (projected)\n"

\* Lines 226-259: the example command prints the sample pitch in a panel
\* and returns; it builds no agent and makes no generation call.
example ==
    /\ command = "example"
    /\ pc = "start"
    /\ display' = Append(display, TitledPanel("Example Pitch", example_pitch))
    /\ pc' = "example_done"
    /\ outcome' = "returned"
    /\ Entered
    /\ UNCHANGED << source, pitch_text, agents, tasks, next_task, all_questions,
                    eval_task, calls, memo, history,
                    STAKEHOLDER_MODEL, command >>

\* Lines 152-160: the pitch comes from --file, else --pitch; with neither,
\* the prompt is printed and the run goes on to wait for its standard input.
GetPitch(T, P) ==
    /\ command = "grill"
    /\ pc = "start"
    /\ \E pitch \in T \cup {None}, pitch_file \in P, content \in T :
         IF Truthy(pitch_file)
         THEN /\ pitch_text' = content
              /\ source' = "file"
              /\ display' = display
              /\ pc' = "check"
         ELSE IF Truthy(pitch)
         THEN /\ pitch_text' = pitch
              /\ source' = "pitch"
              /\ display' = display
              /\ pc' = "check"
         ELSE /\ pitch_text' = pitch_text
              /\ source' = "stdin"
              /\ display' = Append(display, Line("Enter your pitch (Ctrl+D or Ctrl+Z when done):"))
              /\ pc' = "reading"
    /\ Entered
    /\ UNCHANGED << agents, tasks, next_task, all_questions, eval_task, outcome,
                    calls, memo, history, STAKEHOLDER_MODEL, command >>

\* Lines 154-155: open() or read() of a file that cannot be read raises.
OpenFails ==
    /\ command = "grill"
    /\ pc = "start"
    /\ \E pitch_file \in Paths : Truthy(pitch_file)
    /\ source' = "file"
    /\ pc' = "raised_input"
    /\ outcome' = "raised"
    /\ Entered
    /\ UNCHANGED << pitch_text, agents, tasks, next_task, all_questions, eval_task,
                    display, calls, memo, history, STAKEHOLDER_MODEL, command >>

\* Line 161: sys.stdin.read() returns at the end of the input, with all
\* of it; until then the run waits, the prompt shown and pitch_text unbound.
ReadStdin(T) ==
    /\ pc = "reading"
    /\ \E content \in T : pitch_text' = content
    /\ pc' = "check"
    /\ Entered
    /\ UNCHANGED << source, agents, tasks, next_task, all_questions, eval_task,
                    display, outcome, calls, memo, history, STAKEHOLDER_MODEL,
                    command >>

\* Line 161: sys.stdin.read() raises out of the wait (input that cannot be
\* decoded, an interrupt).
StdinFails ==
    /\ pc = "reading"
    /\ pc' = "raised_input"
    /\ outcome' = "raised"
    /\ Entered
    /\ UNCHANGED << source, pitch_text, agents, tasks, next_task, all_questions,
                    eval_task, display, calls, memo, history, STAKEHOLDER_MODEL,
                    command >>

\* Lines 163-165: a pitch that is blank after strip() ends the run.
RejectPitch ==
    /\ pc = "check"
    /\ strip(pitch_text) = <<>>
    /\ display' = Append(display, Line("No pitch provided. Use --pitch or --file."))
    /\ outcome' = "Exit(1)"
    /\ pc' = "exited"
    /\ Entered
    /\ UNCHANGED << source, pitch_text, agents, tasks, next_task, all_questions,
                    eval_task, calls, memo, history, STAKEHOLDER_MODEL, command >>

\* Lines 163-187: banner, the three agents, their tasks, the crew.
StartSession ==
    /\ pc = "check"
    /\ strip(pitch_text) # <<>>
    /\ agents' = create_stakeholders
    /\ tasks' = create_grilling_tasks(pitch_text, agents'[1], agents'[2], agents'[3])
    /\ next_task' = 1
    /\ display' = display \o << Panel("StakeholderGPT"),
                                Line("Assembling your stakeholder panel..."),
                                Line("Starting the grilling session...") >>
    /\ pc' = "kickoff"
    /\ Entered
    /\ UNCHANGED << source, pitch_text, all_questions, eval_task, outcome, calls,
                    memo, history, STAKEHOLDER_MODEL, command >>

\* Variant: a failed call is caught and the crew goes on with an empty output.
ExecuteTask_swallow ==
    /\ pc = "kickoff"
    /\ next_task <= Len(tasks)
    /\ \E r \in Outputs \cup {GenerationFailure} :
         /\ Answer(Request(tasks[next_task]), r)
         /\ calls' = Append(calls, [stage |-> "questions",
                                    request |-> Request(tasks[next_task]),
                                    result |-> r])
         /\ tasks' = [tasks EXCEPT ![next_task].output =
                          IF r = GenerationFailure THEN "" ELSE r]
         /\ next_task' = next_task + 1
         /\ UNCHANGED << pc, outcome >>
    /\ Entered
    /\ UNCHANGED << source, pitch_text, agents, all_questions, eval_task, display,
                    history, STAKEHOLDER_MODEL, command >>

\* Variant: each task's output is printed as soon as the task has run.
ExecuteTask_stream ==
    /\ pc = "kickoff"
    /\ next_task <= Len(tasks)
    /\ \E r \in Outputs \cup {GenerationFailure} :
         /\ Answer(Request(tasks[next_task]), r)
         /\ calls' = Append(calls, [stage |-> "questions",
                                    request |-> Request(tasks[next_task]),
                                    result |-> r])
         /\ IF r = GenerationFailure
            THEN /\ pc' = "raised_questions"
                 /\ outcome' = "raised"
                 /\ UNCHANGED << tasks, next_task, display >>
            ELSE /\ tasks' = [tasks EXCEPT ![next_task].output = r]
                 /\ next_task' = next_task + 1
                 /\ display' = Append(display, Markdown(r))
                 /\ UNCHANGED << pc, outcome >>
    /\ Entered
    /\ UNCHANGED << source, pitch_text, agents, all_questions, eval_task,
                    history, STAKEHOLDER_MODEL, command >>

\* Line 189, crew.kickoff(): the crew executes its next task.  The answer
\* becomes the task's output; a call that raises ends the run.
ExecuteTask ==
    /\ pc = "kickoff"
    /\ next_task <= Len(tasks)
    /\ \E r \in Outputs \cup {GenerationFailure} :
         /\ Answer(Request(tasks[next_task]), r)
         /\ calls' = Append(calls, [stage |-> "questions",
                                    request |-> Request(tasks[next_task]),
                                    result |-> r])
         /\ IF r = GenerationFailure
            THEN /\ pc' = "raised_questions"
                 /\ outcome' = "raised"
                 /\ UNCHANGED << tasks, next_task >>
            ELSE /\ tasks' = [tasks EXCEPT ![next_task].output = r]
                 /\ next_task' = next_task + 1
                 /\ UNCHANGED << pc, outcome >>
    /\ Entered
    /\ UNCHANGED << source, pitch_text, agents, all_questions, eval_task, display,
                    history, STAKEHOLDER_MODEL, command >>

\* Variant: the crew returns one task early.
DisplayQuestions_early ==
    /\ pc = "kickoff"
    /\ next_task >= Len(tasks)
    /\ display' = display \o << Panel("CEO Questions"), Markdown(tasks[1].output),
                                Panel("CTO Questions"), Markdown(tasks[2].output),
                                Panel("Designer Questions"), Markdown(tasks[3].output) >>
    /\ pc' = "aggregating"
    /\ Entered
    /\ UNCHANGED << source, pitch_text, agents, tasks, next_task, all_questions,
                    eval_task, outcome, calls, memo, history, STAKEHOLDER_MODEL, command >>

\* Lines 189-199: kickoff() returns once every task has run; the three
\* outputs are printed under their headings.
DisplayQuestions ==
    /\ pc = "kickoff"
    /\ next_task > Len(tasks)
    /\ display' = display \o << Panel("CEO Questions"), Markdown(tasks[1].output),
                                Panel("CTO Questions"), Markdown(tasks[2].output),
                                Panel("Designer Questions"), Markdown(tasks[3].output) >>
    /\ pc' = "aggregating"
    /\ Entered
    /\ UNCHANGED << source, pitch_text, agents, tasks, next_task, all_questions,
                    eval_task, outcome, calls, memo, history, STAKEHOLDER_MODEL, command >>

\* Lines 201-214: the outputs are combined and the evaluation task built.
Aggregate ==
    /\ pc = "aggregating"
    /\ all_questions' = AllQuestions(tasks)
    /\ display' = Append(display, Line("Calculating your readiness score..."))
    /\ eval_task' = create_evaluation_task(pitch_text, all_questions', agents[1])
    /\ pc' = "evaluating"
    /\ Entered
    /\ UNCHANGED << source, pitch_text, agents, tasks, next_task, outcome, calls,
                    memo, history, STAKEHOLDER_MODEL, command >>

\* Variant: after a failed evaluation the questions are generated afresh.
Evaluate_restart ==
    /\ pc = "evaluating"
    /\ \E r \in Outputs \cup {GenerationFailure} :
         /\ Answer(Request(eval_task), r)
         /\ calls' = Append(calls, [stage |-> "evaluation",
                                    request |-> Request(eval_task),
                                    result |-> r])
         /\ IF r = GenerationFailure
            THEN /\ pc' = "kickoff"
                 /\ next_task' = 1
                 /\ UNCHANGED << tasks, eval_task, display, outcome >>
            ELSE /\ eval_task' = [eval_task EXCEPT !.output = r]
                 /\ display' = display \o
                        << TitledPanel("Readiness Assessment", r),
                           Line("Grilling session complete! Use this feedback to strengthen your pitch.") >>
                 /\ pc' = "done"
                 /\ outcome' = "returned"
                 /\ UNCHANGED << tasks, next_task >>
    /\ Entered
    /\ UNCHANGED << source, pitch_text, agents, all_questions,
                    history, STAKEHOLDER_MODEL, command >>

\* Variant: a failed evaluation is caught and the run ends as if complete.
Evaluate_swallow ==
    /\ pc = "evaluating"
    /\ \E r \in Outputs \cup {GenerationFailure} :
         /\ Answer(Request(eval_task), r)
         /\ calls' = Append(calls, [stage |-> "evaluation",
                                    request |-> Request(eval_task),
                                    result |-> r])
         /\ IF r = GenerationFailure
            THEN /\ display' = Append(display,
                        Line("Grilling session complete! Use this feedback to strengthen your pitch."))
                 /\ pc' = "done"
                 /\ outcome' = "returned"
                 /\ UNCHANGED << tasks, next_task, eval_task >>
            ELSE /\ eval_task' = [eval_task EXCEPT !.output = r]
                 /\ display' = display \o
                        << TitledPanel("Readiness Assessment", r),
                           Line("Grilling session complete! Use this feedback to strengthen your pitch.") >>
                 /\ pc' = "done"
                 /\ outcome' = "returned"
                 /\ UNCHANGED << tasks, next_task >>
    /\ Entered
    /\ UNCHANGED << source, pitch_text, agents, all_questions,
                    history, STAKEHOLDER_MODEL, command >>

EvaluationCallsMade == Cardinality({ i \in 1..Len(calls) : calls[i].stage = "evaluation" })

\* Variant: a failed evaluation call is made a second time.
Evaluate_retry ==
    /\ pc = "evaluating"
    /\ \E r \in Outputs \cup {GenerationFailure} :
         /\ Answer(Request(eval_task), r)
         /\ calls' = Append(calls, [stage |-> "evaluation",
                                    request |-> Request(eval_task),
                                    result |-> r])
         /\ IF r = GenerationFailure
            THEN /\ IF EvaluationCallsMade = 0
                    THEN UNCHANGED << pc, outcome >>
                    ELSE pc' = "raised_evaluation" /\ outcome' = "raised"
                 /\ UNCHANGED << tasks, next_task, eval_task, display >>
            ELSE /\ eval_task' = [eval_task EXCEPT !.output = r]
                 /\ display' = display \o
                        << TitledPanel("Readiness Assessment", r),
                           Line("Grilling session complete! Use this feedback to strengthen your pitch.") >>
                 /\ pc' = "done"
                 /\ outcome' = "returned"
                 /\ UNCHANGED << tasks, next_task >>
    /\ Entered
    /\ UNCHANGED << source, pitch_text, agents, all_questions,
                    history, STAKEHOLDER_MODEL, command >>

\* Lines 215-223: eval_crew.kickoff() executes the evaluation task; its
\* output is printed, then the closing message.  A call that raises ends
\* the run.
Evaluate ==
    /\ pc = "evaluating"
    /\ \E r \in Outputs \cup {GenerationFailure} :
         /\ Answer(Request(eval_task), r)
         /\ calls' = Append(calls, [stage |-> "evaluation",
                                    request |-> Request(eval_task),
                                    result |-> r])
         /\ IF r = GenerationFailure
            THEN /\ pc' = "raised_evaluation"
                 /\ outcome' = "raised"
                 /\ UNCHANGED << eval_task, display >>
            ELSE /\ eval_task' = [eval_task EXCEPT !.output = r]
                 /\ display' = display \o
                        << TitledPanel("Readiness Assessment", r),
                           Line("Grilling session complete! Use this feedback to strengthen your pitch.") >>
                 /\ pc' = "done"
                 /\ outcome' = "returned"
    /\ Entered
    /\ UNCHANGED << source, pitch_text, agents, tasks, next_task, all_questions,
                    history, STAKEHOLDER_MODEL, command >>

----------------------------------------------------------------------------
(* Invoking grill again, and the composition on its own *)

\* What a finished run leaves behind for comparison with a later one.
RunRecord ==
    [command |-> command,
     pitch_text |-> pitch_text,
     llm |-> LLM_CONFIG.model,
     requests |-> [i \in 1..Len(calls) |-> calls[i].request],
     results |-> [i \in 1..Len(calls) |-> calls[i].result],
     transcript |-> [i \in 1..Len(tasks) |-> << tasks[i].agent.role, tasks[i].output >>],
     all_questions |-> all_questions,
     assessment |-> IF pc \in {"evaluating", "raised_evaluation", "done"}
                    THEN eval_task.output ELSE NoOutput,
     outcome |-> outcome,
     state |-> OrchState]

\* Lines 262-263: the program is invoked again, in a new process, with
\* either command.  The
\* environment is read anew, every local of grill and every agent, task
\* and crew is built anew; only the generation capability (outside the
\* program) is the same as before.
Rerun ==
    /\ pc \in Terminal
    /\ Len(history) + 1 < MaxRuns
    /\ history' = Append(history, RunRecord)
    /\ pc' = "start"
    /\ source' = "none"
    /\ pitch_text' = None
    /\ agents' = <<>>
    /\ tasks' = <<>>
    /\ next_task' = 1
    /\ all_questions' = <<>>
    /\ eval_task' = NoTask
    /\ display' = <<>>
    /\ outcome' = "running"
    /\ calls' = <<>>
    /\ trace' = << "Idle" >>
    /\ STAKEHOLDER_MODEL' \in RerunEnviron
    /\ command' \in Commands
    /\ UNCHANGED << memo >>

Next ==
    \/ GetPitch(Texts, Paths)
    \/ ReadStdin(Texts)
    \/ OpenFails
    \/ StdinFails
    \/ RejectPitch
    \/ StartSession
    \/ ExecuteTask
    \/ DisplayQuestions
    \/ Aggregate
    \/ Evaluate
    \/ example

Spec == Init /\ [][Next]_vars

NextTwice ==
    \/ GetPitch(RerunTexts, RerunPaths)
    \/ ReadStdin(RerunTexts)
    \/ OpenFails
    \/ StdinFails
    \/ RejectPitch
    \/ StartSession
    \/ ExecuteTask
    \/ DisplayQuestions
    \/ Aggregate
    \/ Evaluate
    \/ example
    \/ Rerun

InitTwice ==
    /\ STAKEHOLDER_MODEL \in RerunEnviron
    /\ command \in Commands
    /\ RunInit
    /\ memo = << >>
    /\ history = << >>

SpecTwice == InitTwice /\ [][NextTwice]_vars

----------------------------------------------------------------------------
(* Properties *)

QuestionCalls == { i \in 1..Len(calls) : calls[i].stage = "questions" }
EvaluationCalls == { i \in 1..Len(calls) : calls[i].stage = "evaluation" }
Registry == create_stakeholders

\* The run has stopped for good: no step of grill is possible any more.
Stopped == ~ ENABLED Next

\* C1: the question-generation call is made once per persona in registry
\* order (CEO, CTO, Head of Design), never more than three times, each time
\* with the run's pitch; an evaluation call is the fourth call of the run
\* and follows three question calls that all returned; and whenever the run
\* is at or past the evaluation there are three question sets.
C1_QuestionsBeforeEvaluation ==
    /\ \A i \in QuestionCalls :
         /\ i <= 3
         /\ calls[i].request.agent = Registry[i].role
         /\ calls[i].request.description[2] = pitch_text
         /\ \A j \in 1..(i - 1) : calls[j].stage = "questions" /\ calls[j].result \in Outputs
    /\ \A i \in EvaluationCalls :
         /\ i = 4
         /\ \A j \in 1..3 : calls[j].stage = "questions" /\ calls[j].result \in Outputs
    /\ pc \in {"aggregating", "evaluating", "raised_evaluation", "done"} =>
         /\ Cardinality(QuestionCalls) = 3
         /\ Len(tasks) = 3
         /\ \A j \in 1..3 : tasks[j].output = calls[j].result /\ tasks[j].output \in Outputs

C1_Witness ==
    /\ pc = "done"
    /\ Cardinality(QuestionCalls) = 3
    /\ Cardinality(EvaluationCalls) = 1

\* C2: once a persona's generation call has failed, that call is the last
\* call of the run, the orchestrator has gone from GeneratingQuestions to
\* Failed and has stopped, no evaluation call was made, no evaluation task
\* exists and Done was not reached.
C2_GenerationFailureStopsRun ==
    \A i \in QuestionCalls :
        calls[i].result = GenerationFailure =>
            /\ i = Len(calls)
            /\ pc = "raised_questions"
            /\ OrchState = "Failed"
            /\ trace = << "Idle", "GeneratingQuestions", "Failed" >>
            /\ EvaluationCalls = {}
            /\ eval_task = NoTask
            /\ outcome = "raised"
            /\ Stopped

C2_Witness ==
    /\ Len(calls) = 3
    /\ calls[1].result \in Outputs
    /\ calls[2].result \in Outputs
    /\ calls[3].stage = "questions"
    /\ calls[3].result = GenerationFailure

\* A text with no character other than whitespace (the empty text included).
IsBlank(s) ==
    \A i \in 1..Len(s) :
        s[i] \in (9..13) \cup (28..32) \cup {133, 160, 5760} \cup (8192..8202)
                 \cup {8232, 8233, 8239, 8287, 12288}

\* C3: a run whose pitch is empty or all whitespace, once past the check of
\* line 163, has ended with Exit(1) and the "No pitch provided" message,
\* without creating a persona or a task, without any generation call, and
\* without leaving Idle; and a run that got past the check has a pitch that
\* is not blank.
C3_BlankPitchRejected ==
    /\ (pitch_text # None /\ IsBlank(pitch_text) /\ pc # "check") =>
         /\ pc = "exited"
         /\ outcome = "Exit(1)"
         /\ display[Len(display)] = Line("No pitch provided. Use --pitch or --file.")
         /\ agents = <<>>
         /\ tasks = <<>>
         /\ calls = <<>>
         /\ eval_task = NoTask
         /\ trace = << "Idle" >>
         /\ Stopped
    /\ (agents # <<>> \/ calls # <<>>) => ~ IsBlank(pitch_text)

C3_Witness ==
    /\ pc = "exited"
    /\ source = "pitch"
    /\ pitch_text = << 11, 32 >>

LinearOrder == << "Idle", "GeneratingQuestions", "Aggregating", "Evaluating", "Done" >>

\* C4: the states a run has entered are an initial part of Idle,
\* GeneratingQuestions, Aggregating, Evaluating, Done, possibly followed by
\* Failed after GeneratingQuestions or after Evaluating; so no state is
\* entered twice and Done comes only after the three stages in order; the
\* last state entered is the current one; and in Done and in Failed no step
\* is possible.
C4_LinearTraversal ==
    /\ \/ \E n \in 1..5 : trace = SubSeq(LinearOrder, 1, n)
       \/ trace = << "Idle", "GeneratingQuestions", "Failed" >>
       \/ trace = << "Idle", "GeneratingQuestions", "Aggregating", "Evaluating", "Failed" >>
    /\ trace[Len(trace)] = OrchState
    /\ OrchState \in {"Done", "Failed"} => Stopped

C4_Witness ==
    /\ pc = "done"
    /\ trace = LinearOrder

\* The labelled blocks of a combined text: the text without its first and
\* last line break, cut at every blank line (two line breaks in a row).
RECURSIVE SplitBlocks(_, _)
SplitBlocks(parts, block) ==
    IF parts = <<>> THEN << block >>
    ELSE IF Len(parts) >= 2 /\ parts[1] = "\n" /\ parts[2] = "\n"
         THEN << block >> \o SplitBlocks(SubSeq(parts, 3, Len(parts)), <<>>)
         ELSE SplitBlocks(Tail(parts), Append(block, Head(parts)))

Blocks(text) ==
    IF Len(text) < 2 \/ text[1] # "\n" \/ text[Len(text)] # "\n" THEN <<>>
    ELSE SplitBlocks(SubSeq(text, 2, Len(text) - 1), <<>>)

\* C5: once built, the combined text handed to the evaluation has exactly
\* three blocks separated by blank lines, "CEO: t1", "CTO: t2" and
\* "Designer: t3" in this order, where t1, t2, t3 are what the first,
\* second and third persona's generation call returned, whatever these
\* texts are; and it is this text that the evaluation request embeds.
C5_TranscriptBlocksInOrder ==
    pc \in {"evaluating", "raised_evaluation", "done"} =>
        /\ Blocks(all_questions) =
              << << "CEO", ": ", calls[1].result >>,
                 << "CTO", ": ", calls[2].result >>,
                 << "Designer", ": ", calls[3].result >> >>
        /\ \A i \in 1..3 : calls[i].request.agent = Registry[i].role
        /\ eval_task.description[4] = all_questions
        /\ \A i \in EvaluationCalls : calls[i].request.description[4] = all_questions

C5_Witness ==
    /\ pc = "done"
    /\ calls[1].result = "y"
    /\ calls[2].result = "x"
    /\ calls[3].result = "x"
    /\ Len(Blocks(all_questions)) = 3

Shown(e) == \E i \in 1..Len(display) : display[i] = e
ShownKind(k) == { i \in 1..Len(display) : display[i].kind = k }
AssessmentShown == \E i \in 1..Len(display) : display[i].title = "Readiness Assessment"
CompletionShown ==
    Shown(Line("Grilling session complete! Use this feedback to strengthen your pitch."))

\* C6: a run of grill has returned normally only in Done, with three
\* question sets and the assessment produced and all four shown; every
\* other run of grill that has ended ended by Exit(1) or by an exception;
\* and a run in Failed ended by an exception and has shown neither an
\* assessment nor the completion message.
C6_NoPartialSuccess ==
    command = "grill" =>
        /\ outcome = "returned" =>
             /\ pc = "done"
             /\ Len(tasks) = 3
             /\ \A i \in 1..3 : tasks[i].output \in Outputs /\ Shown(Markdown(tasks[i].output))
             /\ eval_task.output \in Outputs
             /\ Shown(TitledPanel("Readiness Assessment", eval_task.output))
             /\ CompletionShown
        /\ pc \in Terminal => outcome \in {"returned", "Exit(1)", "raised"}
        /\ pc \in Terminal \ {"done"} => outcome # "returned"
        /\ pc \notin Terminal => outcome = "running"
        /\ OrchState = "Failed" =>
             /\ outcome = "raised"
             /\ ~ AssessmentShown
             /\ ~ CompletionShown
             /\ eval_task.output = NoOutput

C6_Witness ==
    /\ pc = "raised_evaluation"
    /\ outcome = "raised"
    /\ Cardinality(ShownKind("markdown")) = 3

\* C7: the evaluation call is made at most once in a run, and exactly once
\* in a run that got to the end of the evaluation; when it failed the
\* orchestrator has gone from Evaluating to Failed and stopped, there is no
\* assessment, neither the assessment nor the completion message has been
\* shown, and Done was not reached.
C7_EvaluationFailureTerminal ==
    /\ Cardinality(EvaluationCalls) <= 1
    /\ pc \in {"done", "raised_evaluation"} => Cardinality(EvaluationCalls) = 1
    /\ \A i \in EvaluationCalls :
         calls[i].result = GenerationFailure =>
            /\ pc = "raised_evaluation"
            /\ trace = << "Idle", "GeneratingQuestions", "Aggregating", "Evaluating", "Failed" >>
            /\ eval_task.output = NoOutput
            /\ ~ AssessmentShown
            /\ ~ CompletionShown
            /\ outcome = "raised"
            /\ Stopped

C7_Witness ==
    /\ Len(calls) = 4
    /\ calls[4].stage = "evaluation"
    /\ calls[4].result = GenerationFailure

\* The runs that have ended: the earlier ones and, once it has ended, the
\* current one.
AllRuns == IF pc \in Terminal THEN Append(history, RunRecord) ELSE history

IsPrefix(a, b) == Len(a) <= Len(b) /\ a = SubSeq(b, 1, Len(a))

\* C8: with a generation capability whose answer depends on the request
\* only, any two ended runs on the same pitch text and with the same
\* capability selected (the same model name) made the same generation
\* requests and produced the same question sets, the same combined text and
\* the same assessment and ended the same way; and a run still under way on
\* the pitch text of an earlier run has so far made the requests that run
\* made, in the same order, with the same answers.  Whatever the model
\* names, the personas are asked with the same prompts in both runs.
C8_SamePitchSameResult ==
    /\ \A i \in 1..Len(AllRuns) : \A j \in (i + 1)..Len(AllRuns) :
         (/\ AllRuns[i].pitch_text = AllRuns[j].pitch_text
          /\ AllRuns[i].pitch_text # None
          /\ AllRuns[i].llm = AllRuns[j].llm) =>
            /\ AllRuns[j].requests = AllRuns[i].requests
            /\ AllRuns[j].transcript = AllRuns[i].transcript
            /\ AllRuns[j].all_questions = AllRuns[i].all_questions
            /\ AllRuns[j].assessment = AllRuns[i].assessment
            /\ AllRuns[j].outcome = AllRuns[i].outcome
            /\ AllRuns[j].state = AllRuns[i].state
    /\ \A i \in 1..Len(history) :
         (history[i].pitch_text = pitch_text /\ pitch_text # None) =>
            \A k \in 1..Len(calls) :
               (k <= Len(history[i].requests) /\ calls[k].stage = "questions") =>
                  /\ calls[k].request.agent = history[i].requests[k].agent
                  /\ calls[k].request.description = history[i].requests[k].description
                  /\ calls[k].request.expected_output = history[i].requests[k].expected_output
    /\ \A i \in 1..Len(history) :
         (/\ history[i].pitch_text = pitch_text
          /\ pitch_text # None
          /\ history[i].llm = LLM_CONFIG.model) =>
            /\ IsPrefix(RunRecord.requests, history[i].requests)
            /\ IsPrefix(RunRecord.results, history[i].results)

C8_Witness ==
    /\ Len(history) >= 1
    /\ pc = "done"
    /\ history[Len(history)].pitch_text = pitch_text
    /\ history[Len(history)].llm = LLM_CONFIG.model
    /\ history[Len(history)].state = "Done"
    /\ Len(history[Len(history)].requests) = 4
    /\ Len(calls) = 4

QuestionEvents ==
    << Panel("CEO Questions"), Markdown(calls[1].result),
       Panel("CTO Questions"), Markdown(calls[2].result),
       Panel("Designer Questions"), Markdown(calls[3].result) >>

QuestionTitles == {"CEO Questions", "CTO Questions", "Designer Questions"}

QuestionsShownAt(k) ==
    /\ k + 5 <= Len(display)
    /\ SubSeq(display, k, k + 5) = QuestionEvents

\* C10: while the personas' generation is under way, and in a run where it
\* failed, nothing of any persona's questions has been shown; from the end
\* of the generation on, the three blocks have been shown once, in the order
\* CEO, CTO, Designer, each with what its persona's call returned, and this
\* before the evaluation call; the assessment is shown only when the
\* evaluation call has returned, after the blocks, and carries what that
\* call returned; the completion message is the last thing shown and follows
\* the assessment directly.  So when the evaluation failed, the three blocks
\* have been shown and no assessment.
C10_DisplayOrder ==
    /\ pc \in {"start", "reading", "check", "exited", "raised_input", "kickoff", "raised_questions"} =>
         /\ ShownKind("markdown") = {}
         /\ \A i \in 1..Len(display) : display[i].title \notin QuestionTitles
         /\ ~ AssessmentShown
    /\ pc \in {"aggregating", "evaluating", "raised_evaluation", "done"} =>
         /\ Cardinality(ShownKind("markdown")) = 3
         /\ \E k \in 1..Len(display) :
              /\ QuestionsShownAt(k)
              /\ \A i \in (k + 6)..Len(display) :
                   /\ display[i].title \notin QuestionTitles
                   /\ display[i].kind # "markdown"
              /\ AssessmentShown => k + 6 < Len(display) - 1
    /\ pc \in {"aggregating", "evaluating"} => EvaluationCalls = {} /\ ~ AssessmentShown
    /\ pc = "raised_evaluation" => ~ AssessmentShown /\ ~ CompletionShown
    /\ AssessmentShown =>
         /\ pc = "done"
         /\ calls[4].stage = "evaluation" /\ calls[4].result \in Outputs
         /\ display[Len(display) - 1] = TitledPanel("Readiness Assessment", calls[4].result)
    /\ CompletionShown =>
         /\ AssessmentShown
         /\ display[Len(display)] =
               Line("Grilling session complete! Use this feedback to strengthen your pitch.")

C10_Witness ==
    /\ pc = "raised_evaluation"
    /\ \E k \in 1..Len(display) : QuestionsShownAt(k)
    /\ calls[4].result = GenerationFailure

====
